---- MODULE Spec2Model ----
(***************************************************************************)
(* Investment accrual and maturity settlement of invest-track-platform.    *)
(*                                                                         *)
(* The repository holds three versions of InvestmentProvider               *)
(* (src/unnamed/part_000): a store-backed one (Supabase, lines 1-248), a   *)
(* localStorage one with a "credited" status (lines 251-417) and a         *)
(* localStorage one with "completed" only (lines 420-577).  The variable   *)
(* `variant` selects the version; it never changes.  AuthProvider          *)
(* (src/src/contexts/AuthContext.tsx) owns `users` and `user`.             *)
(* TransactionProvider (src/src/contexts/TransactionContext.tsx) owns      *)
(* `transactions`.                                                         *)
(*                                                                         *)
(* Time is counted in ticks, MsPerDay of them to the day (the code counts  *)
(* milliseconds).  Amounts and durations are drawn so that                 *)
(* returnAmount / duration and the accrued value at every tick are         *)
(* integers, as they are (exactly) in the floating point arithmetic of the *)
(* code for these inputs.                                                  *)
(*                                                                         *)
(* An async handler is split at the awaits that wait for the network (a    *)
(* Supabase request); an await of an already settled local promise does    *)
(* not let another handler in.                                             *)
(***************************************************************************)
EXTENDS Integers, Sequences, FiniteSets, TLC

VARIABLES
  variant,      \* which InvestmentProvider runs: "store", "credited", "local"
  clock,        \* what new Date() reads, in ticks
  users,        \* AuthProvider.users: sequence of user records
  user,         \* AuthProvider.user: a user record, or NoUser
  investments,  \* InvestmentProvider.investments
  store,        \* the persisted investments (Supabase table / localStorage)
  passes,       \* store variant: accrual passes waiting for the store
  creating,     \* store variant: createInvestment calls waiting for their insert
  userChanged,  \* the effect on [user] has run and its work is not done
  depsChanged,  \* the effect on [investments, user] has to run
  credits,      \* ghost: per investment id, the credits of returnAmount issued
  failedNow,    \* ghost: ids whose credit call threw in the last step
  persistFailed,\* ghost: ids whose update to "completed" the store refused
  advancedAt,   \* ghost of SpecAdvance: per id, the clock reading of the last
                \* operation (creation or pass) the investment went through
  lastCall,     \* ghost: the last call of a handler of a provider and how
                \* it ended
  transactions, \* TransactionProvider.transactions
  delayed       \* calls of AuthProvider and TransactionProvider that wait at
                \* their "Simulate API call" timeout

vars == <<variant, clock, users, user, investments, store, passes,
          creating, userChanged, depsChanged, credits, failedNow,
          persistFailed, advancedAt, lastCall, transactions, delayed>>

----------------------------------------------------------------------------
(* Bounds *)

MaxClock == 4
MaxInv == 2
MaxRows == 1
MaxPasses == 2
MaxCredits == 2

(* Program constants *)

MsPerDay == 1
AdminBalance == 10000
UserBalance == 1000

Variants == {"store", "credited", "local"}
Amounts == {150}
Durations == {3}
UserIds == {1, 2}
InvIds == 1..MaxInv

NoUser == [id |-> 0, email |-> "", role |-> "", balance |-> 0,
           referrals |-> <<>>, referralBonus |-> 0]
NoCreate == <<>>
NoCall == [n |-> 0, kind |-> "none", uid |-> 0, amount |-> 0, outcome |-> "none",
           inserted |-> FALSE, debited |-> FALSE]

Min(a, b) == IF a <= b THEN a ELSE b
Max(a, b) == IF a >= b THEN a ELSE b

mockUsers ==
  << [id |-> 1, email |-> "admin@example.com", role |-> "admin",
      balance |-> AdminBalance, referrals |-> <<>>, referralBonus |-> 0],
     [id |-> 2, email |-> "user@example.com", role |-> "user",
      balance |-> UserBalance, referrals |-> <<>>, referralBonus |-> 0] >>

\* TransactionContext.tsx: the two transactions the provider starts with;
\* their dates lie 7, 6 and 2 days before the start
mockTransactions ==
  << [id |-> 1, userId |-> 2, type |-> "deposit", amount |-> 500,
      status |-> "approved", createdAt |-> 0 - 7 * MsPerDay,
      updatedAt |-> 0 - 6 * MsPerDay],
     [id |-> 2, userId |-> 2, type |-> "withdrawal", amount |-> 200,
      status |-> "pending", createdAt |-> 0 - 2 * MsPerDay,
      updatedAt |-> 0 - 2 * MsPerDay] >>

----------------------------------------------------------------------------
(* Investment records *)

Settled(inv) == inv.status \in {"completed", "credited"}

\* status written by the maturity branch of each version
SettledStatus(v) == IF v = "credited" THEN "credited" ELSE "completed"

\* the accrued value without the Math.min clamp
GrowthValueNoClamp(inv, now) ==
  inv.amount + ((now - inv.startDate) * inv.dailyReturn) \div MsPerDay

\* the accrued value with the accrual subtracted from amount
GrowthValueSubtracting(inv, now) ==
  Min(inv.amount - ((now - inv.startDate) * inv.dailyReturn) \div MsPerDay,
      inv.returnAmount)

\* min(amount + elapsedDays * dailyReturn, returnAmount)
GrowthValue(inv, now) ==
  Min(inv.amount + ((now - inv.startDate) * inv.dailyReturn) \div MsPerDay,
      inv.returnAmount)

\* the maturity test with > in place of >=
MaturedStrict(inv, now) == now > inv.endDate

Matured(inv, now) == now >= inv.endDate

\* the map callback with a maturity branch that leaves currentValue at amount
AdvanceInvSettleAtAmount(inv, now, v) ==
  IF inv.status = "active"
  THEN IF Matured(inv, now)
       THEN [inv EXCEPT !.status = SettledStatus(v), !.currentValue = inv.amount]
       ELSE [inv EXCEPT !.currentValue = GrowthValue(inv, now)]
  ELSE inv

\* the map callback with an accrual branch that derives dailyReturn anew
AdvanceInvRecomputingRate(inv, now, v) ==
  IF inv.status = "active"
  THEN IF Matured(inv, now)
       THEN [inv EXCEPT !.status = SettledStatus(v),
                        !.currentValue = inv.returnAmount]
       ELSE [inv EXCEPT !.currentValue = GrowthValue(inv, now),
                        !.dailyReturn = (inv.returnAmount - inv.amount) \div inv.duration]
  ELSE inv

\* the body of the map callback, without its side effects
AdvanceInv(inv, now, v) ==
  IF inv.status = "active"
  THEN IF Matured(inv, now)
       THEN [inv EXCEPT !.status = SettledStatus(v),
                        !.currentValue = inv.returnAmount]
       ELSE [inv EXCEPT !.currentValue = GrowthValue(inv, now)]
  ELSE inv

\* the credit decision without the test of investment.status
CreditTargetAnyStatus(inv, now, u, v) ==
  IF Matured(inv, now)
  THEN IF v = "credited"
       THEN inv.userId
       ELSE IF u # NoUser /\ inv.userId = u.id THEN u.id ELSE 0
  ELSE 0

\* the user id updateUserBalance is called with for inv, 0 when it is not called
CreditTarget(inv, now, u, v) ==
  IF inv.status = "active" /\ Matured(inv, now)
  THEN IF v = "credited"
       THEN inv.userId
       ELSE IF u # NoUser /\ inv.userId = u.id THEN u.id ELSE 0
  ELSE 0

NewInvestment(id, uid, amount, duration, now) ==
  LET returnAmount == amount * 2
  IN [id |-> id, userId |-> uid, amount |-> amount,
      returnAmount |-> returnAmount, duration |-> duration,
      startDate |-> now, endDate |-> now + duration * MsPerDay,
      dailyReturn |-> returnAmount \div duration,
      status |-> "active", currentValue |-> amount]

----------------------------------------------------------------------------
(* AuthProvider *)

\* users.map(u => u.id === userId ? {...u, balance: max(0, balance + amount)} : u)
UpdateUsers(us, userId, amount) ==
  [i \in 1..Len(us) |->
     IF us[i].id = userId
     THEN [us[i] EXCEPT !.balance = Max(0, us[i].balance + amount)]
     ELSE us[i]]

\* the current-user record after updateUserBalance(userId, amount)
UpdateUser(u, userId, amount) ==
  IF u # NoUser /\ u.id = userId
  THEN [u EXCEPT !.balance = Max(0, u.balance + amount)]
  ELSE u

FindUser(us, uid) == CHOOSE u \in {us[i] : i \in 1..Len(us)} : u.id = uid

----------------------------------------------------------------------------
(* calculateInvestmentGrowth: what one run of the map does                 *)

\* indices of the investments the pass calls updateUserBalance for
CreditIdx(invs, now, u, v) ==
  {i \in 1..Len(invs) : CreditTarget(invs[i], now, u, v) # 0}

SetMax(S) == CHOOSE x \in S : \A y \in S : y <= x

\* Every updateUserBalance call of one run reads the `users` of the same
\* render and calls setUsers with a value: the last call decides.
UsersAfterPass(us, invs, now, u, v) ==
  LET idx == CreditIdx(invs, now, u, v)
  IN IF idx = {} THEN us
     ELSE LET i == SetMax(idx)
          IN UpdateUsers(us, CreditTarget(invs[i], now, u, v), invs[i].returnAmount)

\* likewise for setUser, called when the credited id is the current user's
UserAfterPass(u, invs, now, v) ==
  LET own == {i \in CreditIdx(invs, now, u, v) :
                u # NoUser /\ CreditTarget(invs[i], now, u, v) = u.id}
  IN IF own = {} THEN u
     ELSE UpdateUser(u, u.id, invs[SetMax(own)].returnAmount)

\* ids whose credit goes through localStorage.setItem("investmentUser")
OwnCredited(invs, now, u, v) ==
  {invs[i].id : i \in {j \in CreditIdx(invs, now, u, v) :
                        u # NoUser /\ CreditTarget(invs[j], now, u, v) = u.id}}

\* ids the pass takes from "active" to the settled status
MaturingIds(invs, now) ==
  {invs[i].id : i \in {j \in 1..Len(invs) :
                        invs[j].status = "active" /\ Matured(invs[j], now)}}

CreditedIds(invs, now, u, v) == {invs[i].id : i \in CreditIdx(invs, now, u, v)}

\* the map with its results in reverse order
AdvanceAllReversed(invs, now, v) ==
  [i \in 1..Len(invs) |-> AdvanceInv(invs[Len(invs) + 1 - i], now, v)]

AdvanceAll(invs, now, v) == [i \in 1..Len(invs) |-> AdvanceInv(invs[i], now, v)]

CountCredits(cr, invs, now, u, v) ==
  [id \in InvIds |->
     cr[id] + Cardinality({i \in CreditIdx(invs, now, u, v) : invs[i].id = id})]

----------------------------------------------------------------------------
Init ==
  /\ variant \in Variants
  /\ clock = 0
  /\ users = mockUsers
  /\ user = NoUser
  /\ investments = <<>>
  /\ store = <<>>
  /\ passes = <<>>
  /\ creating = NoCreate
  /\ userChanged = FALSE
  /\ depsChanged = TRUE
  /\ credits = [id \in InvIds |-> 0]
  /\ failedNow = {}
  /\ persistFailed = {}
  /\ advancedAt = [id \in InvIds |-> 0]
  /\ lastCall = NoCall
  /\ transactions = mockTransactions
  /\ delayed = <<>>

----------------------------------------------------------------------------
(* The clock *)

Tick ==
  /\ clock < MaxClock
  /\ clock' = clock + 1
  /\ failedNow' = {}
  /\ UNCHANGED <<transactions, delayed, variant, users, user, investments, store, passes,
                 creating, userChanged, depsChanged, credits, persistFailed, advancedAt, lastCall>>

----------------------------------------------------------------------------
(* AuthProvider.login / logout *)

Login(uid) ==
  /\ user' = FindUser(users, uid)
  /\ user' # user
  /\ userChanged' = (variant = "store")
  /\ depsChanged' = TRUE
  /\ failedNow' = {}
  /\ UNCHANGED <<transactions, delayed, variant, clock, users, investments, store, passes,
                 creating, credits, persistFailed, advancedAt, lastCall>>

Logout ==
  /\ user # NoUser
  /\ user' = NoUser
  /\ userChanged' = (variant = "store")
  /\ depsChanged' = TRUE
  /\ failedNow' = {}
  /\ UNCHANGED <<transactions, delayed, variant, clock, users, investments, store, passes,
                 creating, credits, persistFailed, advancedAt, lastCall>>

----------------------------------------------------------------------------
(* calculateInvestmentGrowth *)

\* localStorage versions: the whole pass is synchronous.  `fail` says that
\* localStorage.setItem throws inside updateUserBalance; the promise it
\* rejects is not awaited.
PassSync(fail) ==
  /\ variant \in {"credited", "local"}
  /\ \A id \in CreditedIds(investments, clock, user, variant) : credits[id] < MaxCredits
  /\ fail => OwnCredited(investments, clock, user, variant) # {}
  /\ investments' = AdvanceAll(investments, clock, variant)
  /\ store' = investments'
  /\ users' = UsersAfterPass(users, investments, clock, user, variant)
  /\ user' = UserAfterPass(user, investments, clock, variant)
  /\ credits' = CountCredits(credits, investments, clock, user, variant)
  /\ failedNow' = IF fail THEN OwnCredited(investments, clock, user, variant) ELSE {}
  /\ UNCHANGED <<transactions, delayed, variant, clock, passes, creating, userChanged, persistFailed,
                 advancedAt, lastCall>>

\* store-backed version, up to the awaits of the Supabase updates: the
\* credits are issued and the update requests are sent.  A callback whose
\* updateUserBalance throws rejects and sends no update.
PassStart(fail) ==
  /\ variant = "store"
  /\ user # NoUser
  /\ Len(passes) < MaxPasses
  /\ \A id \in CreditedIds(investments, clock, user, variant) : credits[id] < MaxCredits
  /\ fail => OwnCredited(investments, clock, user, variant) # {}
  /\ LET idx == CreditIdx(investments, clock, user, variant)
         sent == {i \in 1..Len(investments) :
                    investments[i].status = "active" /\ ~(fail /\ i \in idx)}
     IN /\ passes' = Append(passes, [res |-> AdvanceAll(investments, clock, variant),
                                      todo |-> sent, failed |-> fail,
                                      settles |-> MaturingIds(investments, clock)])
        /\ users' = UsersAfterPass(users, investments, clock, user, variant)
        /\ user' = UserAfterPass(user, investments, clock, variant)
        /\ userChanged' = (userChanged \/ idx # {})
        /\ depsChanged' = (idx # {})
  /\ credits' = CountCredits(credits, investments, clock, user, variant)
  /\ failedNow' = IF fail THEN OwnCredited(investments, clock, user, variant) ELSE {}
  /\ UNCHANGED <<transactions, delayed, variant, clock, investments, store, creating, persistFailed,
                 advancedAt, lastCall>>

CalculateInvestmentGrowth(fail) ==
  \/ PassSync(fail) /\ depsChanged' = TRUE
  \/ PassStart(fail)
  \/ /\ variant = "store" /\ user = NoUser /\ ~fail
     /\ depsChanged' = FALSE
     /\ failedNow' = {}
     /\ UNCHANGED <<transactions, delayed, variant, clock, users, user, investments, store, passes,
                    creating, userChanged, credits, persistFailed, advancedAt, lastCall>>

\* useEffect(..., [investments, user]): "Run once immediately"
AccrualEffect(fail) ==
  /\ depsChanged
  /\ CalculateInvestmentGrowth(fail)

\* the setInterval callback of the same effect
TimerTick(fail) ==
  /\ ~depsChanged
  /\ CalculateInvestmentGrowth(fail)
  /\ variant = "store" => user # NoUser

RemoveAt(s, p) == [i \in 1..(Len(s) - 1) |-> IF i < p THEN s[i] ELSE s[i + 1]]

\* the row of `st` a Supabase update of pass result r reaches
UpdatedRow(row, r) ==
  IF Settled(r)
  THEN [row EXCEPT !.status = "completed", !.currentValue = r.returnAmount]
  ELSE [row EXCEPT !.currentValue = r.currentValue]

\* the store answers the update of investment i of pass p; its error is
\* not looked at by the caller
StoreUpdate(p, i, ok) ==
  /\ p \in 1..Len(passes)
  /\ i \in passes[p].todo
  /\ LET r == passes[p].res[i]
     IN store' = IF ok /\ r.id \in 1..Len(store)
                 THEN [store EXCEPT ![r.id] = UpdatedRow(store[r.id], r)]
                 ELSE store
  /\ passes' = [passes EXCEPT ![p].todo = @ \ {i}]
  /\ persistFailed' =
       IF ~ok /\ Settled(passes[p].res[i])
       THEN persistFailed \cup {passes[p].res[i].id}
       ELSE persistFailed
  /\ failedNow' = {}
  /\ UNCHANGED <<transactions, delayed, variant, clock, users, user, investments, creating,
                 userChanged, depsChanged, credits, advancedAt, lastCall>>

\* Promise.all settles: setInvestments(updatedInvestments), or the catch
PassFinish(p) ==
  /\ p \in 1..Len(passes)
  /\ passes[p].todo = {}
  /\ passes' = RemoveAt(passes, p)
  /\ IF passes[p].failed
     THEN UNCHANGED <<investments, depsChanged>>
     ELSE /\ investments' = passes[p].res
          /\ depsChanged' = TRUE
  /\ failedNow' = {}
  /\ UNCHANGED <<transactions, delayed, variant, clock, users, user, store, creating,
                 userChanged, credits, persistFailed, advancedAt, lastCall>>

----------------------------------------------------------------------------
(* fetchInvestments (store-backed version) *)

RowsOf(st, uid) == SelectSeq(st, LAMBDA r : r.userId = uid)

\* useEffect(..., [user]): fetchInvestments() when a user is logged in, read
\* at the time its response is mapped, setInvestments([]) otherwise
UserEffect(ok) ==
  /\ variant = "store"
  /\ userChanged
  /\ userChanged' = FALSE
  /\ user = NoUser => ok
  /\ IF ok
     THEN /\ investments' = IF user # NoUser THEN RowsOf(store, user.id) ELSE <<>>
          /\ depsChanged' = TRUE
     ELSE UNCHANGED <<investments, depsChanged>>
  /\ failedNow' = {}
  /\ UNCHANGED <<transactions, delayed, variant, clock, users, user, store, passes, creating,
                 credits, persistFailed, advancedAt, lastCall>>

----------------------------------------------------------------------------
(* createInvestment *)

\* localStorage versions
CreateLocal(amount, duration) ==
  /\ variant \in {"credited", "local"}
  /\ user # NoUser
  /\ ~(user.balance < amount)
  /\ Len(investments) < MaxInv
  /\ users' = UpdateUsers(users, user.id, -amount)
  /\ user' = UpdateUser(user, user.id, -amount)
  /\ investments' =
       Append(investments,
              NewInvestment(Len(investments) + 1, user.id, amount, duration, clock))
  /\ store' = investments'
  /\ depsChanged' = TRUE
  /\ failedNow' = {}
  /\ UNCHANGED <<transactions, delayed, variant, clock, passes, creating, userChanged,
                 credits, persistFailed, advancedAt, lastCall>>

\* store-backed version up to the await of the insert; the rest of the
\* handler runs with the users, user and investments of this render
CreateStart(amount, duration) ==
  /\ variant = "store"
  /\ user # NoUser
  /\ ~(user.balance < amount)
  /\ creating = NoCreate
  /\ Len(store) < MaxRows
  /\ creating' = << [amount |-> amount, duration |-> duration, now |-> clock,
                     capUsers |-> users, capUser |-> user, capInvs |-> investments,
                     phase |-> "sent", row |-> 0] >>
  /\ failedNow' = {}
  /\ UNCHANGED <<transactions, delayed, variant, clock, users, user, investments, store, passes,
                 userChanged, depsChanged, credits, persistFailed, advancedAt, lastCall>>

CreateFinish(ok) ==
  /\ creating # NoCreate
  /\ creating' = NoCreate
  /\ LET c == creating[1]
         new == NewInvestment(Len(store) + 1, c.capUser.id, c.amount, c.duration, c.now)
     IN IF ok
        THEN /\ store' = Append(store, new)
             /\ users' = UpdateUsers(c.capUsers, c.capUser.id, -c.amount)
             /\ user' = UpdateUser(c.capUser, c.capUser.id, -c.amount)
             /\ investments' = Append(c.capInvs, new)
             /\ userChanged' = TRUE
             /\ depsChanged' = TRUE
        ELSE UNCHANGED <<store, users, user, investments, userChanged, depsChanged>>
  /\ failedNow' = {}
  /\ UNCHANGED <<transactions, delayed, variant, clock, passes, credits, persistFailed, advancedAt, lastCall>>

----------------------------------------------------------------------------
Next ==
  \/ Tick
  \/ \E uid \in UserIds : Login(uid)
  \/ Logout
  \/ \E fail \in BOOLEAN : AccrualEffect(fail)
  \/ \E fail \in BOOLEAN : TimerTick(fail)
  \/ \E p \in 1..MaxPasses, i \in 1..MaxInv, ok \in BOOLEAN : StoreUpdate(p, i, ok)
  \/ \E p \in 1..MaxPasses : PassFinish(p)
  \/ \E ok \in BOOLEAN : UserEffect(ok)
  \/ \E a \in Amounts, d \in Durations : CreateLocal(a, d)
  \/ \E a \in Amounts, d \in Durations : CreateStart(a, d)
  \/ \E ok \in BOOLEAN : CreateFinish(ok)

Spec == Init /\ [][Next]_vars

----------------------------------------------------------------------------
(* The accrual engine run sequentially: every operation is applied as a    *)
(* whole (its store requests succeed before the next operation starts)     *)
(* and the clock reading of each operation is arbitrary.                   *)

SeqSetClock(t) ==
  /\ t # clock
  /\ clock' = t
  /\ failedNow' = {}
  /\ UNCHANGED <<transactions, delayed, variant, users, user, investments, store, passes, creating,
                 userChanged, depsChanged, credits, persistFailed, advancedAt, lastCall>>

\* login, then fetchInvestments in the store-backed version
SeqLogin(uid) ==
  /\ user' = FindUser(users, uid)
  /\ user' # user
  /\ investments' = IF variant = "store" THEN RowsOf(store, uid) ELSE investments
  /\ failedNow' = {}
  /\ UNCHANGED <<transactions, delayed, variant, clock, users, store, passes, creating, userChanged,
                 depsChanged, credits, persistFailed, advancedAt, lastCall>>

\* logout, then setInvestments([]) in the store-backed version
SeqLogout ==
  /\ user # NoUser
  /\ user' = NoUser
  /\ investments' = IF variant = "store" THEN <<>> ELSE investments
  /\ failedNow' = {}
  /\ UNCHANGED <<transactions, delayed, variant, clock, users, store, passes, creating, userChanged,
                 depsChanged, credits, persistFailed, advancedAt, lastCall>>

SeqCreate(amount, duration) ==
  /\ user # NoUser
  /\ ~(user.balance < amount)
  /\ Len(store) < MaxRows
  /\ LET new == NewInvestment(Len(store) + 1, user.id, amount, duration, clock)
     IN /\ store' = Append(store, new)
        /\ investments' = Append(investments, new)
        /\ advancedAt' = [advancedAt EXCEPT ![new.id] = clock]
  /\ users' = UpdateUsers(users, user.id, -amount)
  /\ user' = UpdateUser(user, user.id, -amount)
  /\ failedNow' = {}
  /\ UNCHANGED <<transactions, delayed, variant, clock, passes, creating, userChanged, depsChanged,
                 credits, persistFailed, lastCall>>

\* the rows of st after the updates of the pass whose result is res, sent
\* for the investments that were "active" in invs
RowsAfterPass(st, invs, res) ==
  [k \in 1..Len(st) |->
     IF \E i \in 1..Len(invs) : invs[i].id = k /\ invs[i].status = "active"
     THEN LET i == CHOOSE j \in 1..Len(invs) : invs[j].id = k
          IN UpdatedRow(st[k], res[i])
     ELSE st[k]]

SeqPass ==
  /\ variant = "store" => user # NoUser
  /\ \A id \in CreditedIds(investments, clock, user, variant) : credits[id] < MaxCredits
  /\ investments' = AdvanceAll(investments, clock, variant)
  /\ store' = IF variant = "store"
              THEN RowsAfterPass(store, investments, investments')
              ELSE investments'
  /\ users' = UsersAfterPass(users, investments, clock, user, variant)
  /\ user' = UserAfterPass(user, investments, clock, variant)
  /\ credits' = CountCredits(credits, investments, clock, user, variant)
  /\ advancedAt' =
       [id \in InvIds |->
          IF \E i \in 1..Len(investments) : investments[i].id = id
          THEN clock ELSE advancedAt[id]]
  /\ failedNow' = {}
  /\ UNCHANGED <<transactions, delayed, variant, clock, passes, creating, userChanged, depsChanged,
                 persistFailed, lastCall>>

NextAdvance ==
  \/ \E t \in 0..MaxClock : SeqSetClock(t)
  \/ \E uid \in UserIds : SeqLogin(uid)
  \/ SeqLogout
  \/ \E a \in Amounts, d \in Durations : SeqCreate(a, d)
  \/ SeqPass

SpecAdvance == Init /\ [][NextAdvance]_vars

----------------------------------------------------------------------------
(* Accrual passes over the lists that creations and earlier passes leave:   *)
(* the list is drawn at the start, any mix of owners, start dates and       *)
(* active and settled investments, with the balances and credits that go    *)
(* with it, and passes run on it at arbitrary clock readings.               *)

StartDates == {0, 1}

BalanceOf(us, uid) == FindUser(us, uid).balance

\* what the rows of user uid have taken from (debits) and given to (credits
\* issued) the balance of uid
RECURSIVE NetOfRows(_, _, _)
NetOfRows(rows, cr, uid) ==
  IF rows = <<>> THEN 0
  ELSE (IF Head(rows).userId = uid
        THEN cr[Head(rows).id] * Head(rows).returnAmount - Head(rows).amount
        ELSE 0)
       + NetOfRows(Tail(rows), cr, uid)

\* the investment createInvestment made at `start`, as it is before its
\* first pass or after the pass that settled it
ListedInvestment(id, uid, amount, duration, start, settled, v) ==
  IF settled
  THEN [NewInvestment(id, uid, amount, duration, start)
          EXCEPT !.status = SettledStatus(v), !.currentValue = (amount * 2)]
  ELSE NewInvestment(id, uid, amount, duration, start)

InitPass ==
  /\ variant \in Variants
  /\ clock = 0
  /\ \E n \in 0..MaxInv :
       \E f \in [1..n -> UserIds \X StartDates \X BOOLEAN] :
         \E a \in Amounts, d \in Durations :
           store = [i \in 1..n |->
                      ListedInvestment(i, f[i][1], a, d, f[i][2], f[i][3], variant)]
  /\ credits = [id \in InvIds |->
                  IF id <= Len(store) /\ Settled(store[id]) THEN 1 ELSE 0]
  /\ users = [i \in 1..Len(mockUsers) |->
                [mockUsers[i] EXCEPT
                   !.balance = @ + NetOfRows(store, credits, mockUsers[i].id)]]
  /\ user \in {NoUser} \cup {users[i] : i \in 1..Len(users)}
  /\ investments = IF variant = "store"
                   THEN (IF user = NoUser THEN <<>> ELSE RowsOf(store, user.id))
                   ELSE store
  /\ advancedAt = [id \in InvIds |->
                     IF id <= Len(store)
                     THEN (IF Settled(store[id]) THEN store[id].endDate
                           ELSE store[id].startDate)
                     ELSE 0]
  /\ passes = <<>>
  /\ creating = NoCreate
  /\ userChanged = FALSE
  /\ depsChanged = FALSE
  /\ failedNow = {}
  /\ persistFailed = {}
  /\ lastCall = NoCall
  /\ transactions = mockTransactions
  /\ delayed = <<>>

NextPass ==
  \/ \E t \in 0..MaxClock : SeqSetClock(t)
  \/ SeqPass

SpecPass == InitPass /\ [][NextPass]_vars

----------------------------------------------------------------------------
(* createInvestment and addReferralCommission call by call: the calls are   *)
(* counted, their arguments are whatever the caller passes, a call of the   *)
(* store-backed version may start while another waits for its insert, and   *)
(* the insert reaches the store before its answer reaches the handler.      *)

MaxCalls == 3
MaxCreateRows == 2

CallAmounts == {600, 20000}
UncheckedAmounts == {-100}
DepositAmounts == {500, -10000}

\* the validation without the test of the balance
CreateErrorNoBalanceCheck(u, amount) ==
  IF u = NoUser THEN "You must be logged in" ELSE ""

\* what createInvestment throws before it does anything, "" when it goes on
CreateError(u, amount) ==
  IF u = NoUser THEN "You must be logged in"
  ELSE IF u.balance < amount THEN "Insufficient balance"
  ELSE ""

\* a handler that reports success whatever was thrown
OutcomeAlwaysSuccess(threw) == "success"

\* catch: toast.error and rethrow; otherwise toast.success
Outcome(threw) == IF threw THEN "error" ELSE "success"

CallRecord(uid, amount, outcome, inserted, debited) ==
  [n |-> lastCall.n + 1, kind |-> "create", uid |-> uid, amount |-> amount,
   outcome |-> outcome, inserted |-> inserted, debited |-> debited]

\* createInvestment up to its first await on the network.  `fail` says that
\* localStorage.setItem throws inside updateUserBalance.
CallCreate(amount, duration, fail) ==
  /\ lastCall.n < MaxCalls
  /\ IF CreateError(user, amount) # ""
     THEN /\ ~fail
          /\ lastCall' = CallRecord(user.id, amount, Outcome(TRUE), FALSE, FALSE)
          /\ UNCHANGED <<users, user, investments, store, creating,
                         userChanged, depsChanged>>
     ELSE IF variant = "store"
     THEN /\ ~fail
          /\ Len(store) + Len(creating) < MaxCreateRows
          /\ creating' =
               Append(creating,
                      [amount |-> amount, duration |-> duration, now |-> clock,
                       capUsers |-> users, capUser |-> user, capInvs |-> investments,
                       phase |-> "sent", row |-> 0])
          /\ lastCall' = [CallRecord(user.id, amount, "pending", FALSE, FALSE)
                            EXCEPT !.n = lastCall.n + 1]
          /\ UNCHANGED <<users, user, investments, store, userChanged, depsChanged>>
     ELSE /\ Len(investments) < MaxCreateRows
          /\ users' = UpdateUsers(users, user.id, -amount)
          /\ user' = UpdateUser(user, user.id, -amount)
          /\ investments' =
               IF fail THEN investments
               ELSE Append(investments,
                           NewInvestment(Len(investments) + 1, user.id, amount,
                                         duration, clock))
          /\ store' = investments'
          /\ lastCall' = CallRecord(user.id, amount, Outcome(fail), ~fail, TRUE)
          /\ depsChanged' = TRUE
          /\ UNCHANGED <<creating, userChanged>>
  /\ failedNow' = {}
  /\ UNCHANGED <<transactions, delayed, variant, clock, passes, credits, persistFailed, advancedAt>>

\* the store applies (ok) or refuses the insert of call k
InsertLands(k, ok) ==
  /\ k \in 1..Len(creating)
  /\ creating[k].phase = "sent"
  /\ LET c == creating[k]
         new == NewInvestment(Len(store) + 1, c.capUser.id, c.amount, c.duration, c.now)
     IN IF ok
        THEN /\ store' = Append(store, new)
             /\ creating' = [creating EXCEPT ![k].phase = "inserted",
                                              ![k].row = Len(store) + 1]
        ELSE /\ store' = store
             /\ creating' = [creating EXCEPT ![k].phase = "refused"]
  /\ failedNow' = {}
  /\ UNCHANGED <<transactions, delayed, variant, clock, users, user, investments, passes, userChanged,
                 depsChanged, credits, persistFailed, advancedAt, lastCall>>

\* the answer of the insert reaches call k: `gotError` says that the answer
\* is an error (always for a refused insert, and for an answer that was
\* lost), `fail` that localStorage.setItem throws inside updateUserBalance
CreateReturn(k, gotError, fail) ==
  /\ k \in 1..Len(creating)
  /\ creating[k].phase # "sent"
  /\ creating[k].phase = "refused" => gotError
  /\ gotError => ~fail
  /\ creating' = RemoveAt(creating, k)
  /\ LET c == creating[k]
         inserted == c.phase = "inserted"
     IN IF gotError
        THEN /\ lastCall' = [CallRecord(c.capUser.id, c.amount, Outcome(TRUE),
                                          inserted, FALSE)
                               EXCEPT !.n = lastCall.n]
             /\ UNCHANGED <<users, user, investments, userChanged, depsChanged>>
        ELSE /\ users' = UpdateUsers(c.capUsers, c.capUser.id, -c.amount)
             /\ user' = UpdateUser(c.capUser, c.capUser.id, -c.amount)
             /\ investments' =
                  IF fail THEN investments ELSE Append(c.capInvs, store[c.row])
             /\ lastCall' = [CallRecord(c.capUser.id, c.amount, Outcome(fail),
                                          inserted, TRUE)
                               EXCEPT !.n = lastCall.n]
             /\ userChanged' = TRUE
             /\ depsChanged' = TRUE
  /\ failedNow' = {}
  /\ UNCHANGED <<transactions, delayed, variant, clock, store, passes, credits, persistFailed, advancedAt>>

\* commission = amount * 0.2
Commission(amount) == (amount * 2) \div 10

Known(us, id) == \E i \in 1..Len(us) : us[i].id = id

\* what addReferralCommission throws, "" when it goes on
ReferralError(us, referrerId, userId) ==
  IF ~Known(us, referrerId) THEN "Referrer not found"
  ELSE IF ~Known(us, userId) THEN "User not found"
  ELSE ""

\* the referrals of the referrer left as they are
UpdatedReferralsUnchanged(referrer, userId, commission) == referrer.referrals

\* [...(referrer.referrals || []), {id: userId, name, commission}]
UpdatedReferrals(referrer, userId, commission) ==
  Append(referrer.referrals, [id |-> userId, commission |-> commission])

AddReferralCommission(referrerId, amount, userId) ==
  /\ lastCall.n < MaxCalls
  /\ IF ReferralError(users, referrerId, userId) # ""
     THEN /\ lastCall' = [n |-> lastCall.n + 1, kind |-> "commission",
                          uid |-> referrerId, amount |-> Commission(amount),
                          outcome |-> Outcome(TRUE),
                          inserted |-> FALSE, debited |-> FALSE]
          /\ UNCHANGED <<users, user, userChanged, depsChanged>>
     ELSE LET referrer == FindUser(users, referrerId)
              commission == Commission(amount)
              updatedReferrals == UpdatedReferrals(referrer, userId, commission)
              updatedReferralBonus == referrer.referralBonus + commission
          IN /\ users' = [i \in 1..Len(users) |->
                            IF users[i].id = referrerId
                            THEN [users[i] EXCEPT !.referrals = updatedReferrals,
                                                  !.referralBonus = updatedReferralBonus,
                                                  !.balance = @ + commission]
                            ELSE users[i]]
             /\ user' = IF user # NoUser /\ user.id = referrerId
                        THEN [user EXCEPT !.referrals = updatedReferrals,
                                          !.referralBonus = updatedReferralBonus,
                                          !.balance = @ + commission]
                        ELSE user
             /\ userChanged' = (userChanged \/ (variant = "store" /\ user' # user))
             /\ depsChanged' = (depsChanged \/ user' # user)
             /\ lastCall' = [n |-> lastCall.n + 1, kind |-> "commission",
                             uid |-> referrerId, amount |-> commission,
                             outcome |-> Outcome(FALSE),
                             inserted |-> FALSE, debited |-> FALSE]
  /\ failedNow' = {}
  /\ UNCHANGED <<transactions, delayed, variant, clock, investments, store, passes,
                 creating, credits, persistFailed, advancedAt>>

NextCreate ==
  \/ \E uid \in UserIds : Login(uid)
  \/ Logout
  \/ \E ok \in BOOLEAN : UserEffect(ok)
  \/ \E a \in CallAmounts, d \in Durations, fail \in BOOLEAN : CallCreate(a, d, fail)
  \/ \E k \in 1..MaxCreateRows, ok \in BOOLEAN : InsertLands(k, ok)
  \/ \E k \in 1..MaxCreateRows, gotError \in BOOLEAN, fail \in BOOLEAN :
       CreateReturn(k, gotError, fail)

SpecCreate == Init /\ [][NextCreate]_vars

\* the same with amounts no caller has checked and with the referral
\* commissions of AuthProvider
NextLedger ==
  \/ NextCreate
  \/ \E a \in UncheckedAmounts, d \in Durations, fail \in BOOLEAN :
       CallCreate(a, d, fail)
  \/ \E r \in UserIds, a \in DepositAmounts, u \in UserIds :
       AddReferralCommission(r, a, u)

SpecLedger == Init /\ [][NextLedger]_vars

----------------------------------------------------------------------------
(* TransactionProvider call by call.  createDeposit, createWithdrawal and   *)
(* updateTransaction check their caller, wait for the one-second timeout    *)
(* that stands for the API call and then run on with the `user` and         *)
(* `transactions` of the render they were called from; other calls may      *)
(* start and end during the wait.  AuthProvider and TransactionProvider are *)
(* the same under every InvestmentProvider: the version is fixed.           *)

MaxDelayed == 2

TxAmounts == {500, 5000}
TxStatuses == {"approved", "rejected"}
TxIds == {2, 3}

InitProviders == Init /\ variant = "local"

\* the record of a call of kind `kind`, the n-th call made
Call(n, kind, uid, amount, outcome) ==
  [n |-> n, kind |-> kind, uid |-> uid, amount |-> amount, outcome |-> outcome,
   inserted |-> FALSE, debited |-> FALSE]

\* a call at its timeout, with what its closure holds
Waiting(kind, amount, txId, status, email) ==
  [kind |-> kind, amount |-> amount, txId |-> txId,
   status |-> status, email |-> email,
   capUsers |-> users, capUser |-> user, capTxs |-> transactions]

DepositError(u) == IF u = NoUser THEN "You must be logged in" ELSE ""

\* the validation without the test of the balance
WithdrawalErrorNoBalanceCheck(u, amount) ==
  IF u = NoUser THEN "You must be logged in" ELSE ""

WithdrawalError(u, amount) ==
  IF u = NoUser THEN "You must be logged in"
  ELSE IF u.balance < amount THEN "Insufficient balance"
  ELSE ""

\* the validation without the test of the role
UpdateErrorNoRoleCheck(u) ==
  IF u = NoUser THEN "You must be logged in" ELSE ""

UpdateError(u) ==
  IF u = NoUser THEN "You must be logged in"
  ELSE IF u.role # "admin" THEN "Unauthorized"
  ELSE ""

NewTransaction(txs, u, type, amount, now) ==
  [id |-> Len(txs) + 1, userId |-> u.id, type |-> type, amount |-> amount,
   status |-> "pending", createdAt |-> now, updatedAt |-> now]

\* prev.map(t => t.id === transactionId ? {...t, status, updatedAt} : t)
UpdatedTransactions(prev, transactionId, status, now) ==
  [i \in 1..Len(prev) |->
     IF prev[i].id = transactionId
     THEN [prev[i] EXCEPT !.status = status, !.updatedAt = now]
     ELSE prev[i]]

\* a call up to its timeout: it throws err, or waits
CallOrThrow(err, kind, amount, txId, status, email) ==
  /\ lastCall.n < MaxCalls
  /\ IF err # ""
     THEN /\ lastCall' = Call(lastCall.n + 1, kind, user.id, amount, Outcome(TRUE))
          /\ UNCHANGED delayed
     ELSE /\ Len(delayed) < MaxDelayed
          /\ delayed' = Append(delayed, Waiting(kind, amount, txId, status, email))
          /\ lastCall' = Call(lastCall.n + 1, kind, user.id, amount, "pending")
  /\ failedNow' = {}
  /\ UNCHANGED <<transactions, variant, clock, users, user, investments, store,
                 passes, creating, userChanged, depsChanged, credits,
                 persistFailed, advancedAt>>

CreateDeposit(amount) ==
  CallOrThrow(DepositError(user), "deposit", amount, 0, "", "")

CreateWithdrawal(amount) ==
  CallOrThrow(WithdrawalError(user, amount), "withdrawal", amount, 0, "", "")

\* the timeout of createDeposit or createWithdrawal k is over
CreateTransactionReturn(k) ==
  /\ k \in 1..Len(delayed)
  /\ delayed[k].kind \in {"deposit", "withdrawal"}
  /\ LET c == delayed[k]
     IN /\ transactions' =
             Append(c.capTxs,
                    NewTransaction(c.capTxs, c.capUser, c.kind, c.amount, clock))
        /\ lastCall' = Call(lastCall.n, c.kind, c.capUser.id, c.amount, Outcome(FALSE))
  /\ delayed' = RemoveAt(delayed, k)
  /\ failedNow' = {}
  /\ UNCHANGED <<variant, clock, users, user, investments, store, passes,
                 creating, userChanged, depsChanged, credits, persistFailed,
                 advancedAt>>

UpdateTransaction(transactionId, status) ==
  CallOrThrow(UpdateError(user), "update", 0, transactionId, status, "")

\* the timeout of updateTransaction k is over
UpdateTransactionReturn(k) ==
  /\ k \in 1..Len(delayed)
  /\ delayed[k].kind = "update"
  /\ LET c == delayed[k]
     IN /\ transactions' = UpdatedTransactions(transactions, c.txId, c.status, clock)
        /\ lastCall' = Call(lastCall.n, c.kind, c.capUser.id, c.amount, Outcome(FALSE))
  /\ delayed' = RemoveAt(delayed, k)
  /\ failedNow' = {}
  /\ UNCHANGED <<variant, clock, users, user, investments, store, passes,
                 creating, userChanged, depsChanged, credits, persistFailed,
                 advancedAt>>

NextTransactions ==
  \/ \E uid \in UserIds : Login(uid)
  \/ Logout
  \/ \E a \in TxAmounts : CreateDeposit(a)
  \/ \E a \in TxAmounts : CreateWithdrawal(a)
  \/ \E k \in 1..MaxDelayed : CreateTransactionReturn(k)
  \/ \E id \in TxIds, st \in TxStatuses : UpdateTransaction(id, st)
  \/ \E k \in 1..MaxDelayed : UpdateTransactionReturn(k)

SpecTransactions == InitProviders /\ [][NextTransactions]_vars

----------------------------------------------------------------------------
(* AuthProvider call by call.  register and login wait for the one-second   *)
(* timeout first and then run on with the `users` of the render they were   *)
(* called from; updateUserBalance and addReferralCommission run at once.    *)

AuthEmails == {"user@example.com", "new@example.com"}
RefIds == {1, 3}
ReferredIds == {2, 3}
BalanceDeltas == {500}
ReferralDeposits == {500, 1000}

\* what register throws after its timeout, "" when it goes on
RegisterError(us, email) ==
  IF \E i \in 1..Len(us) : us[i].email = email THEN "User already exists" ELSE ""

NewUser(us, email) ==
  [id |-> Len(us) + 1, email |-> email, role |-> "user", balance |-> 0,
   referrals |-> <<>>, referralBonus |-> 0]

\* users.find(u => u.email === email), NoUser when there is none
FoundUser(us, email) ==
  IF \E i \in 1..Len(us) : us[i].email = email
  THEN us[CHOOSE i \in 1..Len(us) :
            /\ us[i].email = email
            /\ \A j \in 1..(i - 1) : us[j].email # email]
  ELSE NoUser

Register(email) == CallOrThrow("", "register", 0, 0, "", email)

\* the timeout of register k is over
RegisterReturn(k) ==
  /\ k \in 1..Len(delayed)
  /\ delayed[k].kind = "register"
  /\ LET c == delayed[k]
     IN IF RegisterError(c.capUsers, c.email) # ""
        THEN /\ lastCall' = Call(lastCall.n, c.kind, 0, 0, Outcome(TRUE))
             /\ UNCHANGED <<users, user, userChanged, depsChanged>>
        ELSE /\ users' = Append(c.capUsers, NewUser(c.capUsers, c.email))
             /\ user' = NewUser(c.capUsers, c.email)
             /\ userChanged' = (variant = "store")
             /\ depsChanged' = TRUE
             /\ lastCall' = Call(lastCall.n, c.kind, Len(c.capUsers) + 1, 0,
                                 Outcome(FALSE))
  /\ delayed' = RemoveAt(delayed, k)
  /\ failedNow' = {}
  /\ UNCHANGED <<transactions, variant, clock, investments, store, passes,
                 creating, credits, persistFailed, advancedAt>>

LoginByEmail(email) == CallOrThrow("", "login", 0, 0, "", email)

\* the timeout of login k is over
LoginReturn(k) ==
  /\ k \in 1..Len(delayed)
  /\ delayed[k].kind = "login"
  /\ LET c == delayed[k]
         foundUser == FoundUser(c.capUsers, c.email)
     IN IF foundUser = NoUser
        THEN /\ lastCall' = Call(lastCall.n, c.kind, 0, 0, Outcome(TRUE))
             /\ UNCHANGED <<user, userChanged, depsChanged>>
        ELSE /\ user' = foundUser
             /\ userChanged' = (variant = "store")
             /\ depsChanged' = TRUE
             /\ lastCall' = Call(lastCall.n, c.kind, foundUser.id, 0, Outcome(FALSE))
  /\ delayed' = RemoveAt(delayed, k)
  /\ failedNow' = {}
  /\ UNCHANGED <<transactions, variant, clock, users, investments, store, passes,
                 creating, credits, persistFailed, advancedAt>>

UpdateUserBalance(userId, amount) ==
  /\ lastCall.n < MaxCalls
  /\ users' = UpdateUsers(users, userId, amount)
  /\ user' = UpdateUser(user, userId, amount)
  /\ userChanged' = (userChanged \/ (variant = "store" /\ user' # user))
  /\ depsChanged' = (depsChanged \/ user' # user)
  /\ lastCall' = Call(lastCall.n + 1, "balance", userId, amount, Outcome(FALSE))
  /\ failedNow' = {}
  /\ UNCHANGED <<transactions, delayed, variant, clock, investments, store, passes,
                 creating, credits, persistFailed, advancedAt>>

NextAuth ==
  \/ \E e \in AuthEmails : Register(e)
  \/ \E k \in 1..MaxDelayed : RegisterReturn(k)
  \/ \E e \in AuthEmails : LoginByEmail(e)
  \/ \E k \in 1..MaxDelayed : LoginReturn(k)
  \/ Logout
  \/ \E id \in UserIds, a \in BalanceDeltas : UpdateUserBalance(id, a)
  \/ \E r \in RefIds, a \in ReferralDeposits, u \in ReferredIds :
       AddReferralCommission(r, a, u)

SpecAuth == InitProviders /\ [][NextAuth]_vars

----------------------------------------------------------------------------
(* Properties *)

\* the in-memory records / the persisted rows of investment id
MemOf(id) == {investments[i] : i \in {j \in 1..Len(investments) : investments[j].id = id}}
RowOf(id) == {store[i] : i \in {j \in 1..Len(store) : store[j].id = id}}

\* in-flight passes that take investment id from "active" to settled
SettlingPasses(id) == {p \in 1..Len(passes) : id \in passes[p].settles}

\* C1 (store-backed and "credited" versions): every investment gets exactly
\* one credit of returnAmount, issued at its Active->Settled transition:
\* never more than one credit, and an investment the investment list shows
\* settled has received its credit.
C1_ExactlyOneCredit ==
  variant \in {"store", "credited"} =>
    \A id \in InvIds :
      /\ credits[id] <= 1
      /\ \A inv \in MemOf(id) : Settled(inv) => credits[id] = 1

\* C2: when two accrual passes overlap on one investment at or after its
\* maturity (both are in flight and both settle it), only one of them has
\* issued the credit.
C2_RaceOneCredit ==
  \A id \in InvIds : Cardinality(SettlingPasses(id)) >= 2 => credits[id] <= 1

\* C3 (store-backed and "completed"-only versions): settlement is a unit for
\* every reader of the investment list: a settled investment has been
\* credited and an active one has not.
C3_SettlementIsUnit ==
  variant \in {"store", "local"} =>
    \A i \in 1..Len(investments) :
      /\ Settled(investments[i]) => credits[investments[i].id] >= 1
      /\ investments[i].status = "active" => credits[investments[i].id] = 0

\* C4: once the store has refused to persist the settled state of a credited
\* investment, no pass started after the refused pass has ended credits that
\* investment again.
C4_NoRecreditAfterPersistFailure ==
  [][\A id \in persistFailed : passes = <<>> => credits'[id] = credits[id]]_vars

\* C5 (store-backed and "credited" versions): when the credit of a maturing
\* investment fails, the pass settles nothing: the investment list still
\* shows it active and the step does not persist it as settled.
C5_FailedCreditRollsBack ==
  [][(variant \in {"store", "credited"}) =>
       \A id \in failedNow' :
         /\ \A inv \in MemOf(id)' : inv.status = "active"
         /\ (\E r \in RowOf(id)' : Settled(r)) => (\E r \in RowOf(id) : Settled(r))]_vars

C7_SettledValueIsPayout ==
  variant \in {"store", "local"} =>
  /\ \A i \in 1..Len(investments) :
       Settled(investments[i]) => investments[i].currentValue = investments[i].returnAmount
  /\ \A i \in 1..Len(store) :
       Settled(store[i]) => store[i].currentValue = store[i].returnAmount

----------------------------------------------------------------------------
\* C11: a created investment has returnAmount = 2 * amount and a dailyReturn
\* of (returnAmount - amount) / duration, that is dailyReturn * duration =
\* returnAmount - amount.
C11_DailyAccrualOfGain ==
  \A i \in 1..Len(store) :
    /\ store[i].returnAmount = 2 * store[i].amount
    /\ store[i].dailyReturn * store[i].duration
         = store[i].returnAmount - store[i].amount

\* C12: an active investment last advanced at a clock reading in
\* [startDate, endDate) has the value that grows linearly from amount at
\* startDate to returnAmount at endDate, and has received no credit.
C12_LinearGrowthToPayout ==
  \A i \in 1..Len(investments) :
    LET inv == investments[i]
        elapsedDays == (advancedAt[inv.id] - inv.startDate) \div MsPerDay
    IN (/\ inv.status = "active"
        /\ advancedAt[inv.id] >= inv.startDate
        /\ advancedAt[inv.id] < inv.endDate)
       => /\ inv.currentValue
               = Min(inv.amount
                       + (elapsedDays * (inv.returnAmount - inv.amount)) \div inv.duration,
                     inv.returnAmount)
          /\ credits[inv.id] = 0

----------------------------------------------------------------------------
\* C18: no balance adjustment is lost: every user's balance is the initial
\* balance, less the amount of every investment created, plus returnAmount
\* for every settlement credit issued.
C18_NoLostUpdate ==
  \A uid \in UserIds :
    BalanceOf(users, uid) = BalanceOf(mockUsers, uid) + NetOfRows(store, credits, uid)

----------------------------------------------------------------------------
\* C14: a call of createInvestment made with nobody logged in, or with an
\* amount above the balance of the caller, ends with an error and changes
\* neither the balances, the store, the investment list nor the calls in
\* flight.
C14_RejectedCallMutatesNothing ==
  [][(/\ lastCall'.n = lastCall.n + 1
      /\ lastCall'.kind = "create"
      /\ (user = NoUser \/ user.balance < lastCall'.amount))
     => /\ lastCall'.outcome = "error"
        /\ UNCHANGED <<users, user, investments, store, creating>>]_vars

\* a call asking for more than the balance of the logged-in caller was
\* rejected
C14_Witness ==
  /\ lastCall.kind = "create"
  /\ lastCall.outcome = "error"
  /\ ~lastCall.inserted /\ ~lastCall.debited
  /\ user # NoUser /\ user.id = lastCall.uid
  /\ user.balance < lastCall.amount

\* C15: a createInvestment of a positive amount that ends in success finds
\* the balance of its owner at or above the amount and lowers it by exactly
\* the amount, whatever other calls it overlaps with.
C15_SuccessDebitsExactly ==
  [][(/\ lastCall' # lastCall
      /\ lastCall'.kind = "create"
      /\ lastCall'.outcome = "success"
      /\ lastCall'.amount > 0)
     => /\ BalanceOf(users, lastCall'.uid) >= lastCall'.amount
        /\ BalanceOf(users', lastCall'.uid)
             = BalanceOf(users, lastCall'.uid) - lastCall'.amount]_vars

\* C16: the debit comes before the insert: no call in flight has its row in
\* the store while its debit has not been issued yet.
C16_DebitBeforeInsert ==
  \A k \in 1..Len(creating) : creating[k].phase # "inserted"

C19_BalancesNonNegative ==
  /\ \A i \in 1..Len(users) : users[i].balance >= 0
  /\ user # NoUser => user.balance >= 0

\* C20: every stored investment has amount > 0 and duration > 0, hence
\* returnAmount > amount.
C20_CreatedArePositive ==
  \A i \in 1..Len(store) :
    /\ store[i].amount > 0
    /\ store[i].duration > 0
    /\ store[i].returnAmount > store[i].amount

----------------------------------------------------------------------------
\* C21: an accrual pass returns the list it was given, with the same
\* investments in the same order, and returns every investment that is not
\* active unchanged; no row of the store is removed either.
C21_PassReturnsFullCollection ==
  [][SeqPass =>
       /\ Len(investments') = Len(investments)
       /\ \A i \in 1..Len(investments) :
            /\ investments'[i].id = investments[i].id
            /\ investments[i].status # "active" => investments'[i] = investments[i]
       /\ Len(store') = Len(store)
       /\ \A k \in 1..Len(store) : store'[k].id = store[k].id]_vars

\* one pass went over a list of two: it advanced the active investment and
\* handed back, as it was, the one settled before it (the pass was before the
\* endDate of the settled one, so it cannot be the pass that settled it)
C21_Witness ==
  /\ Len(investments) >= 2
  /\ \E i, j \in 1..Len(investments) :
       /\ Settled(investments[i])
       /\ advancedAt[investments[i].id] < investments[i].endDate
       /\ investments[i].currentValue = investments[i].returnAmount
       /\ investments[j].status = "active"
       /\ advancedAt[investments[j].id] = advancedAt[investments[i].id]
       /\ investments[j].currentValue > investments[j].amount

\* C22: the end of a pass starts no other pass: after a synchronous pass no
\* run of the accrual effect is pending, and the end of a store-backed pass
\* does not make one pending.
C22_PassCompletionStartsNoPass ==
  [][/\ (\E fail \in BOOLEAN : PassSync(fail)) => ~depsChanged'
     /\ (\E p \in 1..Len(passes) : PassFinish(p)) => (depsChanged' => depsChanged)]_vars

\* C23: a pass changes nothing but currentValue and status: id, userId,
\* amount, returnAmount, duration, startDate, endDate and dailyReturn of
\* every investment, in the list and in the store, are after the pass what
\* they were before it.
C23_PassKeepsTerms ==
  [][SeqPass =>
       LET Terms(inv) == <<inv.id, inv.userId, inv.amount, inv.returnAmount,
                           inv.duration, inv.startDate, inv.endDate, inv.dailyReturn>>
       IN /\ \A i \in 1..Len(investments) :
               /\ i <= Len(investments')
               /\ Terms(investments'[i]) = Terms(investments[i])
          /\ \A k \in 1..Len(store) :
               /\ k <= Len(store')
               /\ Terms(store'[k]) = Terms(store[k])]_vars

\* an investment has been through a pass at a clock reading after its endDate,
\* is settled, and still has the terms createInvestment gave it
C23_Witness ==
  \E i \in 1..Len(investments) :
    LET inv == investments[i]
    IN /\ Settled(inv)
       /\ advancedAt[inv.id] > inv.endDate
       /\ inv.returnAmount = inv.amount * 2
       /\ inv.dailyReturn = inv.returnAmount \div inv.duration
       /\ inv.endDate = inv.startDate + inv.duration * MsPerDay

\* C24 (store-backed version): when a pass ends and hands its result to the
\* investment list, the store agrees with the result on currentValue and on
\* being settled, for every investment the pass advanced.
C24_StoreAgreesWithSnapshot ==
  [][\A p \in 1..Len(passes) :
       (PassFinish(p) /\ ~passes[p].failed) =>
         \A i \in 1..Len(passes[p].res) :
           LET r == passes[p].res[i]
           IN (r.status = "active" \/ r.id \in passes[p].settles) =>
                \E row \in RowOf(r.id) :
                  /\ row.currentValue = r.currentValue
                  /\ Settled(row) = Settled(r)]_vars

----------------------------------------------------------------------------
\* the calls of the kinds in `kinds` whose timeout ends in this step
Returning(kinds) ==
  {k \in 1..Len(delayed) : delayed[k].kind \in kinds /\ delayed' = RemoveAt(delayed, k)}

\* C25: every createDeposit and createWithdrawal that reports success adds
\* its own transaction: the list keeps every transaction it had and gains
\* one whose id no other transaction has, and ids stay unique.
C25_NoRequestLost ==
  [][(Returning({"deposit", "withdrawal"}) # {} /\ lastCall'.outcome = "success")
     => /\ Len(transactions') = Len(transactions) + 1
        /\ \A i \in 1..Len(transactions) :
             /\ transactions'[i] = transactions[i]
             /\ transactions'[Len(transactions')].id # transactions[i].id
        /\ \A i, j \in 1..Len(transactions') :
             transactions'[i].id = transactions'[j].id => i = j]_vars

\* C26: updateTransaction called with nobody logged in or by a user who is
\* not an admin ends with an error and changes no transaction; called by an
\* admin it changes the status and updatedAt of the transactions with the
\* given id and nothing else.
C26_UpdateByAdminOnly ==
  [][/\ (lastCall'.n = lastCall.n + 1 /\ lastCall'.kind = "update")
        => /\ transactions' = transactions
           /\ IF user = NoUser \/ user.role # "admin"
              THEN lastCall'.outcome = "error" /\ delayed' = delayed
              ELSE lastCall'.outcome = "pending"
     /\ \A k \in Returning({"update"}) :
          /\ delayed[k].capUser.role = "admin"
          /\ lastCall'.outcome = "success"
          /\ Len(transactions') = Len(transactions)
          /\ \A i \in 1..Len(transactions) :
               IF transactions[i].id = delayed[k].txId
               THEN /\ transactions'[i].status = delayed[k].status
                    /\ [transactions'[i] EXCEPT !.status = "", !.updatedAt = 0]
                         = [transactions[i] EXCEPT !.status = "", !.updatedAt = 0]
               ELSE transactions'[i] = transactions[i]]_vars

\* an admin's update went through: the withdrawal that was pending at the
\* start has the status asked for, set at the clock reading of the update
C26_Witness ==
  /\ lastCall.kind = "update"
  /\ lastCall.outcome = "success"
  /\ transactions[2].status \in TxStatuses
  /\ transactions[2].updatedAt = clock
  /\ transactions[1] = mockTransactions[1]

\* C27: createWithdrawal called with nobody logged in or for more than the
\* balance of the caller ends with an error, and adds no transaction then or
\* later; a withdrawal that is added is pending and the step that adds it
\* changes no balance.
C27_WithdrawalChecked ==
  [][/\ (lastCall'.n = lastCall.n + 1 /\ lastCall'.kind = "withdrawal")
        => /\ transactions' = transactions
           /\ IF user = NoUser \/ user.balance < lastCall'.amount
              THEN lastCall'.outcome = "error" /\ delayed' = delayed
              ELSE lastCall'.outcome = "pending"
     /\ \A k \in Returning({"withdrawal"}) :
          /\ delayed[k].capUser.balance >= delayed[k].amount
          /\ transactions'[Len(transactions')].type = "withdrawal"
          /\ transactions'[Len(transactions')].status = "pending"
          /\ users' = users /\ user' = user]_vars

\* a logged-in user asked for more than the balance and was refused, and
\* no call is waiting
C27_Witness ==
  /\ lastCall.kind = "withdrawal"
  /\ lastCall.outcome = "error"
  /\ user # NoUser /\ user.id = lastCall.uid
  /\ user.balance < lastCall.amount
  /\ delayed = <<>>
  /\ transactions = mockTransactions

----------------------------------------------------------------------------
\* C28: no two users of the list share an id or an email, and a register
\* whose email is in the list when its check runs ends with an error and
\* leaves the list as it is, also when register calls overlap.
C28_RegisteredEmailRejected ==
  [][/\ \A i, j \in 1..Len(users') :
          (users'[i].id = users'[j].id \/ users'[i].email = users'[j].email) => i = j
     /\ \A k \in Returning({"register"}) :
          (\E i \in 1..Len(users) : users[i].email = delayed[k].email)
            => (lastCall'.outcome = "error" /\ users' = users)]_vars

RECURSIVE SumOfCommissions(_)
SumOfCommissions(referrals) ==
  IF referrals = <<>> THEN 0
  ELSE Head(referrals).commission + SumOfCommissions(Tail(referrals))

\* C29: the referralBonus of every user, in the list and of the current
\* user, is the sum of the commissions of the user's referrals; an
\* addReferralCommission that succeeds adds the commission, 20% of the
\* amount, to balance and referralBonus of the referrer, names a user of the
\* list as the referred one and changes no other user; one whose referrer is
\* not in the list fails, and a failed one changes nothing.
C29_ReferralBonusIsSum ==
  [][/\ \A i \in 1..Len(users') :
          users'[i].referralBonus = SumOfCommissions(users'[i].referrals)
     /\ user'.referralBonus = SumOfCommissions(user'.referrals)
     /\ (lastCall'.n = lastCall.n + 1 /\ lastCall'.kind = "commission")
          => IF lastCall'.outcome = "success"
             THEN /\ Known(users, lastCall'.uid)
                  /\ Len(users') = Len(users)
                  /\ \A i \in 1..Len(users) :
                       IF users[i].id = lastCall'.uid
                       THEN /\ users'[i].balance = users[i].balance + lastCall'.amount
                            /\ users'[i].referralBonus
                                 = users[i].referralBonus + lastCall'.amount
                            /\ Len(users'[i].referrals) = Len(users[i].referrals) + 1
                            /\ LET entry == users'[i].referrals[Len(users'[i].referrals)]
                               IN /\ Known(users, entry.id)
                                  /\ entry.commission = lastCall'.amount
                                  /\ 5 * entry.commission \in ReferralDeposits
                       ELSE users'[i] = users[i]
             ELSE /\ users' = users
                  /\ user' = user]_vars

\* a referrer has earned two commissions: two referrals, and a bonus that
\* is their sum
C29_Witness ==
  \E i \in 1..Len(users) :
    /\ Len(users[i].referrals) = 2
    /\ users[i].referralBonus
         = users[i].referrals[1].commission + users[i].referrals[2].commission
    /\ users[i].referralBonus > 0
    /\ lastCall.kind = "commission"

\* C30: while a user is logged in, the balance of the current-user record
\* is the balance of the entry of the user list with the same id.
C30_CurrentUserMatchesList ==
  user # NoUser =>
    \A i \in 1..Len(users) : users[i].id = user.id => users[i].balance = user.balance

====
